---- MODULE Spec2Model ----
(***************************************************************************)
(* Model of the state-synchronisation helpers (ProjectUtils) and of the    *)
(* connection-error handler (TeslaFiAPICaller.HandleConnectionError) of    *)
(* ioBroker.teslafi.  The host key/value store (objects = metadata,        *)
(* states = values), the log sink, the adapter stop hook and the Sentry    *)
(* plugin are the collaborators; every handler is one atomic action that   *)
(* records the host calls it made, the log lines it emitted and how it     *)
(* ended.                                                                  *)
(***************************************************************************)
EXTENDS Integers, Sequences, FiniteSets, TLC

(***************************************************************************)
(* JavaScript values.  A value is a record whose field k is the typeof    *)
(* tag (with null kept apart); numbers, booleans and strings carry their   *)
(* payload in n, b and s.  A JS string is a sequence of tokens; a token is *)
(* one white-space character or a run of other characters.                 *)
(***************************************************************************)
JsUndef == [k |-> "undefined"]
JsNull == [k |-> "null"]
Num(n) == [k |-> "number", n |-> n]
Bool(b) == [k |-> "boolean", b |-> b]
Str(s) == [k |-> "string", s |-> s]

\* the ECMAScript white-space tokens the model uses
WhiteSpace == {" ", "\t"}

\* v is null or undefined (x ?? y, x?.y)
Nullish(v) == v.k \in {"undefined", "null"}

\* JavaScript ToBoolean
Truthy(v) ==
    CASE v.k = "undefined" -> FALSE
      [] v.k = "null" -> FALSE
      [] v.k = "number" -> v.n # 0
      [] v.k = "boolean" -> v.b
      [] v.k = "string" -> Len(v.s) > 0
      [] OTHER -> TRUE

\* a parameter with a default value: the default applies to undefined only
Param(v, default) == IF v = JsUndef THEN default ELSE v

\* String.prototype.trim
RECURSIVE TrimStart(_)
TrimStart(s) ==
    IF s = <<>> THEN s
    ELSE IF Head(s) \in WhiteSpace THEN TrimStart(Tail(s)) ELSE s

RECURSIVE TrimEnd(_)
TrimEnd(s) ==
    IF s = <<>> THEN s
    ELSE IF s[Len(s)] \in WhiteSpace THEN TrimEnd(SubSeq(s, 1, Len(s) - 1)) ELSE s

Trim(s) == TrimEnd(TrimStart(s))

\* stateName.split(".") : the segments between the "." tokens
RECURSIVE SplitDot(_, _)
SplitDot(s, cur) ==
    IF s = <<>> THEN <<cur>>
    ELSE IF Head(s) = "." THEN <<cur>> \o SplitDot(Tail(s), <<>>)
         ELSE SplitDot(Tail(s), cur \o <<Head(s)>>)

\* stateName.split(".").pop() ?? stateName
LastSegment(id) ==
    LET parts == SplitDot(id, <<>>)
    IN parts[Len(parts)]

(***************************************************************************)
(* The host store.                                                         *)
(***************************************************************************)
\* the state the helpers are exercised on, and the de-duplication state
VehicleState == <<"vehicle", ".", "state">>
LastSentryLoggedError == <<"LastSentryLoggedError">>

SyncIds == {VehicleState}
Ids == SyncIds \cup {LastSentryLoggedError}

\* no object / no state stored under an id
NoObj == [type |-> "none"]
NoState == [k |-> "nostate"]

\* a field left out of an object literal
Absent == [k |-> "absent"]

VARIABLES
    objects,    \* id -> stored object (metadata) or NoObj
    states,     \* id -> stored state {val, ack} or NoState
    call,       \* the handler that ran last, with its arguments
    ops,        \* the host-store calls the last handler made, in order
    logs,       \* the log lines the last handler emitted, in order
    outcome,    \* how the last handler ended: [end, value]
    stops,      \* adapter.stop invocations of the last handler
    reports,    \* Sentry messages captured by the last handler
    firstSkip,  \* history: value of the first successful present-value sync while all syncs passed dontUpdate
    creator,    \* history: object written by the first metadata write while no sync passed forceMode
    prev,       \* history: the helper call the caller resumed from last, if it created its entry with default flags
    seen,       \* history: the messages of the unknown-shape errors handled so far
    reported,   \* history: every message captured by Sentry so far, in order
    lastHandled, \* history: the message of the error the caller resumed from last, if it was an unknown-shape
                \*          error handled with the Sentry object at hand and no collaborator failing
    pending,    \* the host-store requests of handlers nobody awaits, oldest first
    polls       \* history: calls of ReadTeslaFi so far

vars == <<objects, states, call, ops, logs, outcome, stops, reports, firstSkip, creator, prev,
          seen, reported, lastHandled, pending, polls>>

(***************************************************************************)
(* Bounds and input domains.                                               *)
(***************************************************************************)
\* longest string value handed to the string helper
MaxStrLen == 2

\* the tokens string values are built from
Alphabet == {" ", "a"}

RECURSIVE SeqsUpTo(_, _)
SeqsUpTo(S, n) ==
    IF n = 0 THEN {<<>>}
    ELSE LET shorter == SeqsUpTo(S, n - 1)
         IN shorter \cup {Append(s, c) : s \in {t \in shorter : Len(t) = n - 1}, c \in S}

StringInputs == {Str(s) : s \in SeqsUpTo(Alphabet, MaxStrLen)} \cup {JsNull, JsUndef}
NumberInputs == {Num(0), Num(72), JsNull, JsUndef}
BooleanInputs == {Bool(FALSE), Bool(TRUE), JsNull, JsUndef}

\* description / role / writeable as a caller passes them (undefined = left out)
MetaInputs ==
    { [description |-> JsUndef, role |-> JsUndef, writeable |-> JsUndef],
      [description |-> Str(<<"SoC">>), role |-> Str(<<"level">>), writeable |-> Bool(TRUE)] }

\* unit / min / max / step as a caller of the numeric helper passes them
NoExtras == [unit |-> JsUndef, min |-> JsUndef, max |-> JsUndef, step |-> JsUndef]
ExtraInputs ==
    { NoExtras,
      [unit |-> Str(<<"%">>), min |-> Num(0), max |-> Num(100), step |-> Num(1)],
      [unit |-> Str(<<>>), min |-> JsNull, max |-> Num(0), step |-> Num(0)] }

FlagInputs == {JsUndef, Bool(TRUE)}

\* which host-store call of a handler fails (rejects), if any
SyncFailures == {"none", "setObject", "getStateAsync", "setState"}

(***************************************************************************)
(* ProjectUtils: checkAndSetValue / checkAndSetValueNumber /               *)
(* checkAndSetValueBoolean.                                                *)
(***************************************************************************)
\* the string guard without trim()
StringPresentNoTrim(value) == ~Nullish(value) /\ Len(value.s) > 0

\* the numeric guard as a truthiness test
NumberPresentTruthy(value) == Truthy(value)

\* the guard of each helper: is the value present?
StringPresent(value) == ~Nullish(value) /\ Len(Trim(value.s)) > 0
NumberPresent(value) == value # JsUndef
BooleanPresent(value) == value # JsUndef /\ value # JsNull

ValuePresent(type, value) ==
    CASE type = "string" -> StringPresent(value)
      [] type = "number" -> NumberPresent(value)
      [] type = "boolean" -> BooleanPresent(value)

\* default role of each helper
DefaultRole(type) ==
    CASE type = "string" -> Str(<<"text">>)
      [] type = "number" -> Str(<<"value">>)
      [] type = "boolean" -> Str(<<"indicator">>)

\* ...((x ?? undefined) ? { x } : {})
OptionalField(x) == IF Truthy(x) THEN x ELSE Absent

\* commonObj of the three helpers
CommonObj(type, stateName, a) ==
    [ name |-> Str(LastSegment(stateName)),
      type |-> type,
      role |-> Param(a.role, DefaultRole(type)),
      desc |-> Param(a.description, Str(<<"-">>)),
      read |-> TRUE,
      write |-> Param(a.writeable, Bool(FALSE)),
      unit |-> IF type = "number" THEN OptionalField(a.unit) ELSE Absent,
      min |-> IF type = "number" THEN OptionalField(a.min) ELSE Absent,
      max |-> IF type = "number" THEN OptionalField(a.max) ELSE Absent,
      step |-> IF type = "number" THEN OptionalField(a.step) ELSE Absent ]

\* { type: "state", common: commonObj, native: {} }
StateObject(common) == [type |-> "state", common |-> common]

\* forceMode ? setObject : setObjectNotExistsAsync
MetaCall(forceMode) == IF Truthy(forceMode) THEN "setObject" ELSE "setObjectNotExistsAsync"

\* setObjectNotExistsAsync whatever forceMode says
MetaWritesIfAbsent(forceMode, existing) == existing = NoObj

\* setObject whatever forceMode says
MetaWritesAlways(forceMode, existing) == TRUE

\* does the metadata call store the object it is given?
MetaWrites(forceMode, existing) == Truthy(forceMode) \/ existing = NoObj

\* !dontUpdate || !(await getStateAsync(stateName))
NeedsStateRead(dontUpdate) == Truthy(dontUpdate)

\* the value is written whatever dontUpdate says
WritesValueAlways(dontUpdate, existing) == TRUE

\* the value is written only when there is none
WritesValueIfAbsent(dontUpdate, existing) == existing = NoState

WritesValue(dontUpdate, existing) == ~Truthy(dontUpdate) \/ existing = NoState

\* one host-store call in the record of a handler
Op(name, id, ok, wrote) == [op |-> name, id |-> id, ok |-> ok, wrote |-> wrote]

\* a host call whose rejection is dropped
AwaitIgnored(ok) == "return"

\* await of a host call: a rejected promise is thrown on
AwaitEnd(ok) == IF ok THEN "return" ELSE "throw"

\* the body of a helper once the guard has passed: the store it leaves, the
\* host calls it made, and how it ended
SyncBody(type, stateName, a, fail) ==
    LET forceMode == Param(a.forceMode, Bool(FALSE))
        dontUpdate == Param(a.dontUpdate, Bool(FALSE))
        obj == StateObject(CommonObj(type, stateName, a))
        metaOk == fail # "setObject"
        metaWrote == metaOk /\ MetaWrites(forceMode, objects[stateName])
        metaOp == Op(MetaCall(forceMode), stateName, metaOk, metaWrote)
        objects1 == IF metaWrote THEN [objects EXCEPT ![stateName] = obj] ELSE objects
        reads == NeedsStateRead(dontUpdate)
        readOk == fail # "getStateAsync"
        readOp == Op("getStateAsync", stateName, readOk, FALSE)
        readOps == IF reads THEN <<readOp>> ELSE <<>>
        writeOk == fail # "setState"
        writeOp == Op("setState", stateName, writeOk, writeOk)
        states1 == IF writeOk
                   THEN [states EXCEPT ![stateName] = [val |-> a.value, ack |-> TRUE]]
                   ELSE states
    IN  IF AwaitEnd(metaOk) = "throw"
        THEN [objects |-> objects, states |-> states, ops |-> <<metaOp>>, end |-> "throw"]
        ELSE IF reads /\ AwaitEnd(readOk) = "throw"
        THEN [objects |-> objects1, states |-> states, ops |-> <<metaOp>> \o readOps, end |-> "throw"]
        ELSE IF ~WritesValue(dontUpdate, states[stateName])
        THEN [objects |-> objects1, states |-> states, ops |-> <<metaOp>> \o readOps, end |-> "return"]
        ELSE [objects |-> objects1, states |-> states1,
              ops |-> <<metaOp>> \o readOps \o <<writeOp>>, end |-> AwaitEnd(writeOk)]

\* a whole helper call
SyncRun(type, stateName, a, fail) ==
    IF ValuePresent(type, a.value)
    THEN SyncBody(type, stateName, a, fail)
    ELSE [objects |-> objects, states |-> states, ops |-> <<>>, end |-> "return"]

(***************************************************************************)
(* ProjectUtils: isLikeEmpty and the read helpers.                         *)
(***************************************************************************)
\* a JS object literal / array as data: fields in insertion order
Obj(fields) == [k |-> "object", f |-> fields]
Arr(elems) == [k |-> "array", e |-> elems]
Field(key, value) == [key |-> key, value |-> value]

\* what getStateAsync / getForeignStateAsync resolve to for a stored state
StateAsJs(st) ==
    IF st = NoState THEN JsNull
    ELSE Obj(<<Field("val", st.val), Field("ack", Bool(st.ack))>>)

\* o.val of a state object (undefined when the key is missing)
ValOf(o) ==
    IF \E i \in 1..Len(o.f) : o.f[i].key = "val"
    THEN o.f[CHOOSE i \in 1..Len(o.f) : o.f[i].key = "val"].value
    ELSE JsUndef

\* a non-negative integer in decimal, digit by digit
Digits == <<"0", "1", "2", "3", "4", "5", "6", "7", "8", "9">>

RECURSIVE Decimal(_)
Decimal(n) ==
    IF n < 10 THEN <<Digits[n + 1]>>
    ELSE Decimal(n \div 10) \o <<Digits[(n % 10) + 1]>>

\* a character of a string as JSON.stringify writes it
Escape(ch) ==
    CASE ch = "\"" -> <<"\\", "\"">>
      [] ch = "\\" -> <<"\\", "\\">>
      [] ch = "\t" -> <<"\\", "t">>
      [] OTHER -> <<ch>>

RECURSIVE Escaped(_)
Escaped(chars) == IF chars = <<>> THEN <<>> ELSE Escape(Head(chars)) \o Escaped(Tail(chars))

\* JSON.stringify, as a sequence of tokens
RECURSIVE Stringify(_)
RECURSIVE StringifyFields(_, _)
RECURSIVE StringifyElems(_, _)
Stringify(v) ==
    CASE v.k = "null" -> <<"null">>
      [] v.k = "number" -> Decimal(v.n)
      [] v.k = "boolean" -> <<IF v.b THEN "true" ELSE "false">>
      [] v.k = "string" -> <<"\"">> \o Escaped(v.s) \o <<"\"">>
      [] v.k = "object" -> <<"{">> \o StringifyFields(v.f, TRUE) \o <<"}">>
      [] v.k = "array" -> <<"[">> \o StringifyElems(v.e, TRUE) \o <<"]">>

StringifyFields(fs, first) ==
    IF fs = <<>> THEN <<>>
    ELSE IF Head(fs).value.k = "undefined" THEN StringifyFields(Tail(fs), first)
    ELSE (IF first THEN <<>> ELSE <<",">>)
         \o <<"\"", Head(fs).key, "\"", ":">> \o Stringify(Head(fs).value)
         \o StringifyFields(Tail(fs), FALSE)

StringifyElems(es, first) ==
    IF es = <<>> THEN <<>>
    ELSE (IF first THEN <<>> ELSE <<",">>)
         \o (IF Head(es).k = "undefined" THEN <<"null">> ELSE Stringify(Head(es)))
         \o StringifyElems(Tail(es), FALSE)

\* the two replace calls for { and } are missing
StrippedNoBraces == WhiteSpace \cup {"\"", "'", "[", "]"}

\* the characters isLikeEmpty removes: white space and " ' [ ] { }
Stripped == WhiteSpace \cup {"\"", "'", "[", "]", "{", "}"}

\* sTemp.replace(...) x 7
Strip(tokens) == SelectSeq(tokens, LAMBDA t : t \notin Stripped)

isLikeEmpty(inputVar) ==
    IF inputVar # JsUndef /\ inputVar # JsNull
    THEN Strip(Stringify(inputVar)) = <<>>
    ELSE TRUE

\* values isLikeEmpty is applied to: what a state read can resolve to, and
\* strings, arrays and objects built from white space, quotes and brackets
EmptyAlphabet == {" ", "\t", "\"", "'", "[", "{", "a"}
EmptyLeaves ==
    {JsUndef, JsNull, Num(0), Bool(FALSE), Str(<<>>), Str(<<" ">>), Str(<<"a">>)}
EmptyFlat ==
    {Arr(<<>>)} \cup {Arr(<<x>>) : x \in EmptyLeaves}
    \cup {Arr(<<x, y>>) : x \in EmptyLeaves, y \in EmptyLeaves}
    \cup {Obj(<<>>)} \cup {Obj(<<Field("val", x)>>) : x \in EmptyLeaves}
    \cup {Obj(<<Field("val", x), Field("ack", Bool(TRUE))>>) : x \in EmptyLeaves}
EmptyNested ==
    {Arr(<<c>>) : c \in EmptyFlat} \cup {Obj(<<Field("val", c)>>) : c \in EmptyFlat}
EmptyInputs ==
    {JsUndef, JsNull, Num(0), Num(72), Bool(FALSE), Bool(TRUE)}
    \cup {Str(s) : s \in SeqsUpTo(EmptyAlphabet, MaxStrLen)}
    \cup EmptyFlat \cup EmptyNested

\* a log line
Log(level, line) == [level |-> level, line |-> line]

ReadFailures == {"none", "getObject", "getState"}

\* getState (with verifyStateAvailable): [value, logs, ops]
getState(stateName, fail) ==
    LET objOp == Op("getObjectAsync", stateName, fail # "getObject", FALSE)
        stOp == Op("getStateAsync", stateName, fail # "getState", FALSE)
        stateValueObject == StateAsJs(states[stateName])
    IN  IF fail = "getObject"
        THEN [value |-> JsNull, logs |-> <<Log("error", "asyncGetState")>>, ops |-> <<objOp>>]
        ELSE IF objects[stateName] = NoObj
        THEN [value |-> JsUndef, logs |-> <<Log("debug", "verifyStateAvailable")>>, ops |-> <<objOp>>]
        ELSE IF fail = "getState"
        THEN [value |-> JsNull, logs |-> <<Log("error", "asyncGetState")>>, ops |-> <<objOp, stOp>>]
        ELSE IF ~isLikeEmpty(stateValueObject)
        THEN [value |-> stateValueObject, logs |-> <<>>, ops |-> <<objOp, stOp>>]
        ELSE [value |-> JsNull, logs |-> <<Log("error", "asyncGetState")>>, ops |-> <<objOp, stOp>>]

\* stateObject?.val || null
ValOrNullTruthy(stateObject) ==
    IF Nullish(stateObject) THEN JsNull
    ELSE IF Truthy(ValOf(stateObject)) THEN ValOf(stateObject) ELSE JsNull

\* stateObject?.val ?? null
ValOrNull(stateObject) ==
    IF Nullish(stateObject) THEN JsNull
    ELSE IF Nullish(ValOf(stateObject)) THEN JsNull ELSE ValOf(stateObject)

\* getStateValue: [value, logs, ops, end]; getState has caught every
\* rejection, so the catch of getStateValue itself is never entered
getStateValueRun(stateName, fail) ==
    LET r == getState(stateName, fail)
    IN  [value |-> ValOrNull(r.value), logs |-> r.logs, ops |-> r.ops, end |-> "return"]

\* asyncGetForeignState: [value, logs, ops]
asyncGetForeignState(stateName, fail) ==
    LET objOp == Op("getForeignObjectAsync", stateName, fail # "getObject", FALSE)
        stOp == Op("getForeignStateAsync", stateName, fail # "getState", FALSE)
        stateValueObject == StateAsJs(states[stateName])
        caught == <<Log("error", "asyncGetForeignState")>>
    IN  IF fail = "getObject" \/ objects[stateName] = NoObj
        THEN [value |-> JsNull, logs |-> caught, ops |-> <<objOp>>]
        ELSE IF fail = "getState"
        THEN [value |-> JsNull, logs |-> caught, ops |-> <<objOp, stOp>>]
        ELSE IF ~isLikeEmpty(stateValueObject)
        THEN [value |-> stateValueObject, logs |-> <<>>, ops |-> <<objOp, stOp>>]
        ELSE [value |-> JsNull, logs |-> caught, ops |-> <<objOp, stOp>>]

\* if (stateObject == null) return null; return stateObject.val
ForeignVal(stateObject) == IF Nullish(stateObject) THEN JsNull ELSE ValOf(stateObject)

\* asyncGetForeignStateVal: [value, logs, ops, end]
asyncGetForeignStateValRun(stateName, fail) ==
    LET r == asyncGetForeignState(stateName, fail)
    IN  [value |-> ForeignVal(r.value), logs |-> r.logs, ops |-> r.ops, end |-> "return"]

(***************************************************************************)
(* TeslaFiAPICaller.HandleConnectionError.                                 *)
(***************************************************************************)
\* the error objects handed to the handler: status is the status of
\* stError.response (undefined: the error carries no response)
StatusInputs == {JsUndef, Num(401), Num(500)}
CodeInputs ==
    {JsUndef, Str(<<"ETIMEDOUT">>), Str(<<"EHOSTUNREACH">>), Str(<<"ENETUNREACH">>),
     Str(<<"ECONNRESET">>)}
MessageInputs == {JsUndef, Str(<<"A">>), Str(<<"B">>)}

\* the Sentry plugin as the adapter offers it
PluginInputs == {"unsupported", "noInstance", "noSentryObject", "available"}

\* which collaborator call of the unknown-error branch fails, if any
ReportFailures == {"none", "getStateAsync", "captureMessage", "setState"}

\* Sentry captures in one run, after which the handler is called no more
MaxReports == 3

\* void this.adapter.stop;  -- the property is read, the function is not called
StopInvocations == 0

\* every message counts as new
AlwaysNew(a, b) == TRUE

\* a != b for the values the handler compares (null == undefined)
LooseNotEqual(a, b) == IF Nullish(a) /\ Nullish(b) THEN FALSE ELSE a # b

\* oldError?.val
OldErrorVal(st) == IF st = NoState THEN JsUndef ELSE st.val

\* the branch that needs no collaborator: [logs, stops]
HttpBranch(status) ==
    IF status = Num(401)
    THEN [logs |-> <<Log("error", "credentials"), Log("error", "http401"), Log("error", "shutdown")>>,
          stops |-> StopInvocations]
    ELSE [logs |-> <<Log("error", "httpStatus")>>, stops |-> 0]

\* the switch without its ENETUNREACH case
CodeBranchNoNet(code) ==
    CASE code = Str(<<"ETIMEDOUT">>) ->
            <<Log("warn", "timeout"), Log("warn", "verifyToken")>>
      [] code = Str(<<"EHOSTUNREACH">>) ->
            <<Log("warn", "hostUnreachable"), Log("warn", "verifyNetwork")>>
      [] OTHER -> <<>>

\* switch (stError.code)
CodeBranch(code) ==
    CASE code = Str(<<"ETIMEDOUT">>) ->
            <<Log("warn", "timeout"), Log("warn", "verifyToken")>>
      [] code = Str(<<"EHOSTUNREACH">>) ->
            <<Log("warn", "hostUnreachable"), Log("warn", "verifyNetwork")>>
      [] code = Str(<<"ENETUNREACH">>) ->
            <<Log("warn", "netUnreachable"), Log("warn", "verifyNetwork")>>
      [] OTHER -> <<>>

\* the write is lost
HostSetStateLost(st, id, val) == st

\* adapter.setState(id, { val, ack: true }) as the host applies it: a state
\* written without val keeps the value it had
HostSetState(st, id, val) ==
    IF val = JsUndef
    THEN [st EXCEPT ![id] = IF st[id] = NoState THEN [val |-> JsNull, ack |-> TRUE]
                            ELSE [val |-> st[id].val, ack |-> TRUE]]
    ELSE [st EXCEPT ![id] = [val |-> val, ack |-> TRUE]]

\* the unknown-error branch: [states, logs, ops, reports, end]
UnknownBranch(message, plugin, fail) ==
    LET unknownLogs == <<Log("error", "unknown"), Log("error", "verifyToken")>>
        readOp == Op("getStateAsync", LastSentryLoggedError, fail # "getStateAsync", FALSE)
        writeOp == Op("setState", LastSentryLoggedError, fail # "setState", fail # "setState")
        quiet == [states |-> states, logs |-> unknownLogs, ops |-> <<>>, reports |-> <<>>, end |-> "return"]
        isNew == LooseNotEqual(OldErrorVal(states[LastSentryLoggedError]), message)
    IN  IF plugin \in {"unsupported", "noInstance"} THEN quiet
        ELSE IF fail = "getStateAsync"
        THEN [quiet EXCEPT !.ops = <<readOp>>, !.end = "throw"]
        ELSE IF ~isNew
        THEN [quiet EXCEPT !.ops = <<readOp>>]
        ELSE IF plugin = "available" /\ fail = "captureMessage"
        THEN [quiet EXCEPT !.ops = <<readOp>>, !.end = "throw"]
        ELSE [states |-> IF fail = "setState" THEN states
                         ELSE HostSetState(states, LastSentryLoggedError, message),
              logs |-> unknownLogs,
              ops |-> <<readOp, writeOp>>,
              reports |-> IF plugin = "available" THEN <<message>> ELSE <<>>,
              end |-> "return"]

\* the transport code is looked at before the response
HandleRunCodeFirst(stError, plugin, fail) ==
    IF Truthy(stError.code)
    THEN [states |-> states, logs |-> CodeBranch(stError.code), ops |-> <<>>,
          reports |-> <<>>, stops |-> 0, end |-> "return"]
    ELSE IF stError.status # JsUndef
    THEN [states |-> states, logs |-> HttpBranch(stError.status).logs, ops |-> <<>>,
          reports |-> <<>>, stops |-> HttpBranch(stError.status).stops, end |-> "return"]
    ELSE LET u == UnknownBranch(stError.message, plugin, fail)
         IN  [states |-> u.states, logs |-> u.logs, ops |-> u.ops,
              reports |-> u.reports, stops |-> 0, end |-> u.end]

\* the whole handler: [states, logs, ops, reports, stops, end]
HandleRun(stError, plugin, fail) ==
    IF stError.status # JsUndef
    THEN [states |-> states, logs |-> HttpBranch(stError.status).logs, ops |-> <<>>,
          reports |-> <<>>, stops |-> HttpBranch(stError.status).stops, end |-> "return"]
    ELSE IF Truthy(stError.code)
    THEN [states |-> states, logs |-> CodeBranch(stError.code), ops |-> <<>>,
          reports |-> <<>>, stops |-> 0, end |-> "return"]
    ELSE LET u == UnknownBranch(stError.message, plugin, fail)
         IN  [states |-> u.states, logs |-> u.logs, ops |-> u.ops,
              reports |-> u.reports, stops |-> 0, end |-> u.end]

(***************************************************************************)
(* TeslaFiAPICaller: ReadTeslaFi.                                          *)
(***************************************************************************)
\* documents TeslaFi answers with
BatteryPayload ==
    Obj(<<Field("battery_level", Num(72)), Field("state", Str(<<"online">>))>>)
PayloadInputs == {BatteryPayload, Obj(<<>>)}

\* response.data: the body as text (transformResponse keeps it unparsed)
BodyInputs == {Str(<<>>), Str(<<"<html>">>)} \cup {Str(Stringify(p)) : p \in PayloadInputs}

\* JSON.parse: the document the text is the serialization of, if any
Parses(data) == \E p \in PayloadInputs : Stringify(p) = data.s
JsonParse(data) == CHOOSE p \in PayloadInputs : Stringify(p) = data.s

\* how axios.get settles: a response with a body, or an error
PollInputs ==
    {[kind |-> "response", data |-> d] : d \in BodyInputs}
    \cup {[kind |-> "error", stError |-> [status |-> s, code |-> c, message |-> m]] :
            s \in StatusInputs, c \in CodeInputs, m \in MessageInputs}

\* the errors the then-callback throws itself
EmptyAnswer ==
    [status |-> JsUndef, code |-> JsUndef, message |-> Str(<<"Empty answear from TeslaFi.">>)]
SyntaxError ==
    [status |-> JsUndef, code |-> JsUndef, message |-> Str(<<"Unexpected token">>)]

\* the then-callback without its check of an empty body, which it takes for
\* an answer with nothing in it
ThenCallbackAcceptsEmpty(data) ==
    IF ~Truthy(data)
    THEN [logs |-> <<>>, result |-> JsUndef, error |-> JsUndef]
    ELSE IF ~Parses(data)
    THEN [logs |-> <<Log("debug", "responseData")>>, result |-> JsUndef, error |-> SyntaxError]
    ELSE [logs |-> <<Log("debug", "responseData"), Log("debug", "resultData")>>,
          result |-> JsonParse(data), error |-> JsUndef]

\* the then-callback: [logs, result, error]; error is what it throws, if it does
ThenCallback(data) ==
    IF ~Truthy(data)
    THEN [logs |-> <<>>, result |-> JsUndef, error |-> EmptyAnswer]
    ELSE IF ~Parses(data)
    THEN [logs |-> <<Log("debug", "responseData")>>, result |-> JsUndef, error |-> SyntaxError]
    ELSE [logs |-> <<Log("debug", "responseData"), Log("debug", "resultData")>>,
          result |-> JsonParse(data), error |-> JsUndef]

\* the helper calls the then-callback makes for a parsed document: none, it
\* logs the document and drops it
PollSyncs(result) == <<>>

\* requests to the host store that are in flight at most
MaxPending == 1

\* calls of ReadTeslaFi in one run
MaxPolls == 2

(***************************************************************************)
(* The state machine.                                                      *)
(***************************************************************************)
\* no handler is running and none has a result waiting for its caller
Idle == [op |-> "none"]

\* the branch of the handler that asks for the Sentry plugin is taken
Consulted(stError) == stError.status = JsUndef /\ ~Truthy(stError.code)

\* history markers
NoCall == [k |-> "nocall"]
Void == [k |-> "void"]

Init ==
    /\ objects = [id \in Ids |-> NoObj]
    /\ states = [id \in Ids |-> NoState]
    /\ call = Idle
    /\ ops = <<>>
    /\ logs = <<>>
    /\ outcome = [end |-> "return", value |-> JsUndef]
    /\ stops = 0
    /\ reports = <<>>
    /\ firstSkip = [id \in SyncIds |-> NoCall]
    /\ creator = [id \in SyncIds |-> NoCall]
    /\ prev = NoCall
    /\ seen = {}
    /\ reported = <<>>
    /\ lastHandled = NoCall
    /\ pending = <<>>
    /\ polls = 0

\* a call of one of the three helpers; a failure is chosen only for a host
\* call that the handler reaches
Sync(op, type, stateName, value, m, x, dontUpdate, forceMode, fail) ==
    LET a == [value |-> value, description |-> m.description, role |-> m.role,
              writeable |-> m.writeable, dontUpdate |-> dontUpdate, forceMode |-> forceMode,
              unit |-> x.unit, min |-> x.min, max |-> x.max, step |-> x.step]
        r == SyncRun(type, stateName, a, fail)
        present == ValuePresent(type, a.value)
        skip == Truthy(Param(a.dontUpdate, Bool(FALSE)))
        force == Truthy(Param(a.forceMode, Bool(FALSE)))
    IN  /\ call = Idle
        /\ ~(fail # "none" /\ \A i \in 1..Len(r.ops) : r.ops[i].ok)
        /\ objects' = r.objects
        /\ states' = r.states
        /\ call' = [op |-> op, type |-> type, stateName |-> stateName, a |-> a, fail |-> fail,
                    before |-> [objects |-> objects, states |-> states]]
        /\ ops' = r.ops
        /\ logs' = <<>>
        /\ outcome' = [end |-> r.end, value |-> JsUndef]
        /\ stops' = 0
        /\ reports' = <<>>
        /\ firstSkip' =
              IF ~present THEN firstSkip
              ELSE IF ~skip THEN [firstSkip EXCEPT ![stateName] = Void]
              ELSE IF firstSkip[stateName] = NoCall /\ r.end = "return"
                   THEN [firstSkip EXCEPT ![stateName] = a.value]
                   ELSE firstSkip
        /\ creator' =
              IF ~present THEN creator
              ELSE IF force THEN [creator EXCEPT ![stateName] = Void]
              ELSE IF creator[stateName] = NoCall /\ fail # "setObject"
                   THEN [creator EXCEPT ![stateName] = StateObject(CommonObj(type, stateName, a))]
                   ELSE creator
        /\ UNCHANGED <<prev, seen, reported, lastHandled, pending, polls>>

checkAndSetValue ==
    \E stateName \in SyncIds, value \in StringInputs, m \in MetaInputs,
       dontUpdate \in FlagInputs, forceMode \in FlagInputs, fail \in SyncFailures :
        Sync("checkAndSetValue", "string", stateName, value, m, NoExtras,
             dontUpdate, forceMode, fail)

checkAndSetValueNumber ==
    \E stateName \in SyncIds, value \in NumberInputs, m \in MetaInputs, x \in ExtraInputs,
       dontUpdate \in FlagInputs, forceMode \in FlagInputs, fail \in SyncFailures :
        Sync("checkAndSetValueNumber", "number", stateName, value, m, x,
             dontUpdate, forceMode, fail)

checkAndSetValueBoolean ==
    \E stateName \in SyncIds, value \in BooleanInputs, m \in MetaInputs,
       dontUpdate \in FlagInputs, forceMode \in FlagInputs, fail \in SyncFailures :
        Sync("checkAndSetValueBoolean", "boolean", stateName, value, m, NoExtras,
             dontUpdate, forceMode, fail)

\* a call of a read helper
Read(op, stateName, fail, r) ==
    /\ call = Idle
    /\ ~(fail # "none" /\ \A i \in 1..Len(r.ops) : r.ops[i].ok)
    /\ call' = [op |-> op, stateName |-> stateName, fail |-> fail,
                before |-> [objects |-> objects, states |-> states]]
    /\ ops' = r.ops
    /\ logs' = r.logs
    /\ outcome' = [end |-> r.end, value |-> r.value]
    /\ stops' = 0
    /\ reports' = <<>>
    /\ UNCHANGED <<objects, states, firstSkip, creator, prev, seen, reported, lastHandled, pending, polls>>

getStateValue ==
    \E stateName \in Ids, fail \in ReadFailures :
        Read("getStateValue", stateName, fail, getStateValueRun(stateName, fail))

asyncGetForeignStateVal ==
    \E stateName \in Ids, fail \in ReadFailures :
        Read("asyncGetForeignStateVal", stateName, fail, asyncGetForeignStateValRun(stateName, fail))

\* a call of isLikeEmpty on its own
CallIsLikeEmpty ==
    \E inputVar \in EmptyInputs :
        /\ call = Idle
        /\ call' = [op |-> "isLikeEmpty", inputVar |-> inputVar,
                    before |-> [objects |-> objects, states |-> states]]
        /\ outcome' = [end |-> "return", value |-> Bool(isLikeEmpty(inputVar))]
        /\ ops' = <<>>
        /\ logs' = <<>>
        /\ stops' = 0
        /\ reports' = <<>>
        /\ UNCHANGED <<objects, states, firstSkip, creator, prev, seen, reported, lastHandled, pending, polls>>

HandleConnectionError ==
    \E status \in StatusInputs, code \in CodeInputs, message \in MessageInputs,
       plugin \in PluginInputs, fail \in ReportFailures :
        LET stError == [status |-> status, code |-> code, message |-> message]
            r == HandleRun(stError, plugin, fail)
        IN  /\ call = Idle
            /\ Len(reported) < MaxReports
            /\ ~(fail # "none" /\ r.end # "throw" /\ \A i \in 1..Len(r.ops) : r.ops[i].ok)
            /\ ~(plugin # "unsupported" /\ ~Consulted(stError))
            /\ call' = [op |-> "HandleConnectionError", stError |-> stError, plugin |-> plugin,
                        fail |-> fail,
                        before |-> [objects |-> objects, states |-> states, seen |-> seen]]
            /\ states' = r.states
            /\ ops' = r.ops
            /\ logs' = r.logs
            /\ outcome' = [end |-> r.end, value |-> JsUndef]
            /\ stops' = r.stops
            /\ reports' = r.reports
            /\ seen' = IF Consulted(stError) THEN seen \cup {message} ELSE seen
            /\ reported' = reported \o r.reports
            /\ UNCHANGED <<objects, firstSkip, creator, prev, lastHandled, pending, polls>>

\* ReadTeslaFi up to its await of resolveAfterXSeconds: axios.get settles, the
\* then-callback or the catch-callback runs, and the handler the catch-callback
\* calls without await runs up to its own first await
ReadTeslaFi ==
    \E settled \in PollInputs, plugin \in PluginInputs :
        LET t == IF settled.kind = "response" THEN ThenCallback(settled.data)
                 ELSE [logs |-> <<>>, result |-> JsUndef, error |-> settled.stError]
            failed == t.error # JsUndef
            unknown == failed /\ Consulted(t.error)
            suspended == unknown /\ plugin \in {"noSentryObject", "available"}
        IN  /\ call = Idle
            /\ polls < MaxPolls
            /\ ~(suspended /\ Len(pending) >= MaxPending)
            /\ ~(plugin # "unsupported" /\ ~unknown)
            /\ call' = [op |-> "ReadTeslaFi", settled |-> settled, plugin |-> plugin,
                        handled |-> failed,
                        syncs |-> IF failed THEN <<>> ELSE PollSyncs(t.result),
                        before |-> [objects |-> objects, states |-> states]]
            /\ logs' = IF failed THEN t.logs \o HandleRun(t.error, plugin, "none").logs
                       ELSE t.logs
            /\ stops' = IF failed THEN HandleRun(t.error, plugin, "none").stops ELSE 0
            /\ ops' = <<>>
            /\ reports' = <<>>
            /\ outcome' = [end |-> "await", value |-> JsUndef]
            /\ pending' = IF suspended
                          THEN Append(pending, [op |-> "getStateAsync", plugin |-> plugin,
                                                message |-> t.error.message])
                          ELSE pending
            /\ seen' = IF unknown THEN seen \cup {t.error.message} ELSE seen
            /\ polls' = polls + 1
            /\ UNCHANGED <<objects, states, firstSkip, creator, prev, reported, lastHandled>>

\* the two seconds are over: ReadTeslaFi returns true
resolveAfterXSeconds ==
    /\ call.op = "ReadTeslaFi"
    /\ outcome.end = "await"
    /\ outcome' = [end |-> "return", value |-> Bool(TRUE)]
    /\ UNCHANGED <<objects, states, call, ops, logs, stops, reports, firstSkip, creator, prev,
                   seen, reported, lastHandled, pending, polls>>

\* the host store answers the oldest request in flight.  The answer to
\* getStateAsync resumes the handler that waits for it, which runs to its
\* end and may leave a setState in flight; a setState is applied.
HostServes ==
    \E fail \in ReportFailures :
        LET head == Head(pending)
            u == UnknownBranch(head.message, head.plugin, fail)
            writes == \E i \in 1..Len(u.ops) : u.ops[i].op = "setState"
        IN  /\ pending # <<>>
            /\ IF head.op = "getStateAsync"
               THEN /\ ~(fail # "none" /\ u.end # "throw" /\ \A i \in 1..Len(u.ops) : u.ops[i].ok)
                    /\ reported' = reported \o u.reports
                    /\ pending' = IF writes
                                  THEN Append(Tail(pending), [op |-> "setState", ok |-> fail # "setState",
                                                              message |-> head.message])
                                  ELSE Tail(pending)
                    /\ UNCHANGED states
               ELSE /\ fail = "none"
                    /\ states' = IF head.ok
                                 THEN HostSetState(states, LastSentryLoggedError, head.message)
                                 ELSE states
                    /\ pending' = Tail(pending)
                    /\ UNCHANGED reported
            /\ UNCHANGED <<objects, call, ops, logs, outcome, stops, reports, firstSkip, creator, prev,
                           seen, lastHandled, polls>>

\* the handler that ran last is one of the three helpers
IsSync == call.op \in {"checkAndSetValue", "checkAndSetValueNumber", "checkAndSetValueBoolean"}

\* the finished call is a helper call with a present value and default flags
\* that found no entry under its id and returned normally
CreatedWithDefaults ==
    /\ IsSync
    /\ ops # <<>>
    /\ call.a.dontUpdate = JsUndef /\ call.a.forceMode = JsUndef
    /\ call.before.objects[call.stateName] = NoObj
    /\ outcome.end = "return"

\* the finished call handled an unknown-shape error with the Sentry object at
\* hand and no collaborator failing
HandledWithSentry ==
    /\ call.op = "HandleConnectionError"
    /\ Consulted(call.stError)
    /\ call.plugin = "available"
    /\ call.fail = "none"

\* the caller takes the result of the finished handler and goes on
Resume ==
    /\ call # Idle
    /\ outcome.end # "await"
    /\ call' = Idle
    /\ ops' = <<>>
    /\ logs' = <<>>
    /\ outcome' = [end |-> "return", value |-> JsUndef]
    /\ stops' = 0
    /\ reports' = <<>>
    /\ prev' = IF CreatedWithDefaults THEN [type |-> call.type, stateName |-> call.stateName, a |-> call.a]
               ELSE NoCall
    /\ lastHandled' = IF HandledWithSentry THEN call.stError.message ELSE NoCall
    /\ UNCHANGED <<objects, states, firstSkip, creator, seen, reported, pending, polls>>

Next ==
    \/ checkAndSetValue
    \/ checkAndSetValueNumber
    \/ checkAndSetValueBoolean
    \/ getStateValue
    \/ asyncGetForeignStateVal
    \/ CallIsLikeEmpty
    \/ HandleConnectionError
    \/ ReadTeslaFi
    \/ resolveAfterXSeconds
    \/ HostServes
    \/ Resume

Spec == Init /\ [][Next]_vars

\* the helpers of ProjectUtils alone
NextSync ==
    \/ checkAndSetValue
    \/ checkAndSetValueNumber
    \/ checkAndSetValueBoolean
    \/ getStateValue
    \/ asyncGetForeignStateVal
    \/ Resume

SpecSync == Init /\ [][NextSync]_vars

\* the connection-error handler alone
NextError ==
    \/ HandleConnectionError
    \/ Resume

SpecError == Init /\ [][NextError]_vars

\* the poll alone
NextPoll ==
    \/ ReadTeslaFi
    \/ resolveAfterXSeconds
    \/ HostServes
    \/ Resume

SpecPoll == Init /\ [][NextPoll]_vars

\* the polling loop with the timer of resolveAfterXSeconds, which the event
\* loop fires once its two seconds are over
SpecPollFair == SpecPoll /\ WF_vars(resolveAfterXSeconds)

\* the emptiness predicate alone
NextEmpty ==
    \/ CallIsLikeEmpty
    \/ Resume

SpecEmpty == Init /\ [][NextEmpty]_vars

(***************************************************************************)
(* Properties.                                                             *)
(***************************************************************************)
\* number of log lines of a level the last handler emitted
CountLevel(level) == Cardinality({i \in 1..Len(logs) : logs[i].level = level})

\* the store is as the last handler found it
StoreUntouched == objects = call.before.objects /\ states = call.before.states

IsHandle == call.op = "HandleConnectionError"

\* C1: an error whose response has status 401 makes the handler invoke the
\* adapter's stop operation exactly once and emit exactly three error-level
\* lines; every other error makes it invoke stop zero times.
C1_ShutdownOn401 ==
    IsHandle =>
        IF call.stError.status = Num(401)
        THEN stops = 1 /\ CountLevel("error") = 3
        ELSE stops = 0

\* C10: an error without response whose code is ETIMEDOUT, EHOSTUNREACH or
\* ENETUNREACH yields exactly two warn lines, no error line, no stop, no
\* Sentry report and no host-store call; the store stays as it was.
TransportCodes == {Str(<<"ETIMEDOUT">>), Str(<<"EHOSTUNREACH">>), Str(<<"ENETUNREACH">>)}

C10_TransportErrorsOnlyWarn ==
    (IsHandle /\ call.stError.status = JsUndef /\ call.stError.code \in TransportCodes) =>
        /\ CountLevel("warn") = 2 /\ Len(logs) = 2
        /\ CountLevel("error") = 0
        /\ stops = 0
        /\ reports = <<>>
        /\ ops = <<>>
        /\ StoreUntouched
        /\ outcome.end = "return"

\* a host-unreachable error was handled while a last-reported message is stored
C10_Witness ==
    /\ IsHandle /\ call.stError.status = JsUndef
    /\ call.stError.code = Str(<<"EHOSTUNREACH">>)
    /\ states[LastSentryLoggedError] # NoState
    /\ CountLevel("warn") = 2

(***************************************************************************)
(* Properties of the helpers of ProjectUtils.                              *)
(***************************************************************************)
\* the arguments of the last helper call
SyncId == call.stateName
SyncValue == call.a.value
Skip == call.a.dontUpdate = Bool(TRUE)
Force == call.a.forceMode = Bool(TRUE)
DefaultFlags == call.a.dontUpdate = JsUndef /\ call.a.forceMode = JsUndef

\* a string with a character that is no white space
NonBlank(v) == v.k = "string" /\ \E i \in 1..Len(v.s) : v.s[i] \notin WhiteSpace

\* the value of the last helper call is present by the rule of its type
PresentValue ==
    CASE call.type = "string" -> NonBlank(SyncValue)
      [] call.type = "number" -> SyncValue # JsUndef
      [] call.type = "boolean" -> SyncValue # JsUndef /\ SyncValue # JsNull

\* the descriptor and the state the last helper call asks for
WantedObject == StateObject(CommonObj(call.type, SyncId, call.a))
WantedState == [val |-> SyncValue, ack |-> TRUE]

\* metadata writes that took effect / value writes of the last handler
EffectiveMetaWrites ==
    Cardinality({i \in 1..Len(ops) :
        ops[i].op \in {"setObject", "setObjectNotExistsAsync"} /\ ops[i].wrote})
ValueWrites == Cardinality({i \in 1..Len(ops) : ops[i].op = "setState" /\ ops[i].wrote})

\* the last helper call repeats, argument for argument, the call before it
RepeatsPrev ==
    /\ IsSync /\ prev # NoCall
    /\ call.type = prev.type /\ call.stateName = prev.stateName /\ call.a = prev.a

\* C2: from a store without an entry at the id, two successive helper calls
\* with the same present value, the same other arguments and default flags
\* make one effective metadata write (in the first call only) and one value
\* write each, and the second call leaves object and state as the first did.
C2_IdempotentDefaultSync ==
    /\ (IsSync /\ PresentValue /\ DefaultFlags /\ call.fail = "none"
            /\ call.before.objects[SyncId] = NoObj) =>
          /\ EffectiveMetaWrites = 1 /\ ValueWrites = 1
          /\ objects[SyncId] = WantedObject /\ states[SyncId] = WantedState
    /\ (RepeatsPrev /\ call.fail = "none") =>
          /\ EffectiveMetaWrites = 0 /\ ValueWrites = 1
          /\ StoreUntouched
          /\ objects[SyncId] = WantedObject /\ states[SyncId] = WantedState

\* the second of two identical default calls has finished
C2_Witness == RepeatsPrev /\ call.fail = "none" /\ ValueWrites = 1

\* C3: a helper call with dontUpdate on an id that holds a value leaves the
\* value alone; without dontUpdate, or with no value stored, it writes
\* {val, ack: true}.  While every call on an id passes dontUpdate, the id
\* holds the value of the first call with a present value that completed.
C3_SkipIfExists ==
    /\ (IsSync /\ PresentValue /\ call.fail = "none") =>
          IF Skip /\ call.before.states[SyncId] # NoState
          THEN states = call.before.states
          ELSE states = [call.before.states EXCEPT ![SyncId] = WantedState]
    /\ \A id \in SyncIds :
          firstSkip[id] \notin {NoCall, Void} =>
              states[id] # NoState /\ states[id].val = firstSkip[id]

\* a later call with dontUpdate and another value has left the first value
C3_Witness ==
    /\ IsSync /\ PresentValue /\ Skip /\ call.fail = "none"
    /\ firstSkip[SyncId] \notin {NoCall, Void}
    /\ SyncValue # firstSkip[SyncId]
    /\ states[SyncId].val = firstSkip[SyncId]

\* C4: a helper call with forceMode and a present value rewrites the
\* object: afterwards the stored object is the one built from the call's
\* arguments, whatever object was stored before.
C4_ForceRewritesObject ==
    (IsSync /\ PresentValue /\ Force /\ call.fail # "setObject") =>
        objects = [call.before.objects EXCEPT ![SyncId] = WantedObject]

\* a forced call has replaced an object of another type, role and description
C4_Witness ==
    /\ IsSync /\ PresentValue /\ Force /\ call.fail = "none"
    /\ call.before.objects[SyncId] # NoObj
    /\ call.before.objects[SyncId].common.type # WantedObject.common.type
    /\ call.before.objects[SyncId].common.role # WantedObject.common.role
    /\ call.before.objects[SyncId].common.desc # WantedObject.common.desc
    /\ call.before.objects[SyncId].common.write # WantedObject.common.write
    /\ objects[SyncId] = WantedObject

\* C5: a helper call without forceMode leaves an existing object as it is
\* and writes the object built from its arguments only when the id has
\* none.  While no call on an id passes forceMode, the id holds the object
\* written by the call that created it.
C5_NoClobberWithoutForce ==
    /\ (IsSync /\ PresentValue /\ ~Force /\ call.fail # "setObject") =>
          IF call.before.objects[SyncId] # NoObj
          THEN objects = call.before.objects
          ELSE objects = [call.before.objects EXCEPT ![SyncId] = WantedObject]
    /\ \A id \in SyncIds :
          /\ creator[id] = NoCall => objects[id] = NoObj
          /\ creator[id] \notin {NoCall, Void} => objects[id] = creator[id]

\* an unforced call asking for another descriptor has left the creator's one
C5_Witness ==
    /\ IsSync /\ PresentValue /\ ~Force /\ call.fail = "none"
    /\ creator[SyncId] \notin {NoCall, Void}
    /\ WantedObject # creator[SyncId]
    /\ WantedObject.common.type # creator[SyncId].common.type
    /\ objects[SyncId] = creator[SyncId]

\* C6: checkAndSetValue acts if and only if the value has a character that
\* is no white space, whatever the flags; for "", a white-space string, null
\* or undefined it makes no host-store call, leaves the store alone and
\* returns normally.
C6_BlankStringsSkipped ==
    call.op = "checkAndSetValue" =>
        /\ NonBlank(SyncValue) <=> ops # <<>>
        /\ (NonBlank(SyncValue) /\ call.fail = "none") =>
              objects[SyncId] # NoObj /\ states[SyncId] # NoState
        /\ ~NonBlank(SyncValue) =>
              StoreUntouched /\ logs = <<>> /\ outcome.end = "return"

\* a white-space string passed with forceMode to an existing entry did nothing
C6_Witness ==
    /\ call.op = "checkAndSetValue" /\ Force
    /\ SyncValue.k = "string" /\ Len(SyncValue.s) > 0 /\ ~NonBlank(SyncValue)
    /\ call.before.objects[SyncId] # NoObj
    /\ ops = <<>> /\ StoreUntouched

\* C7: checkAndSetValueNumber acts if and only if the value is not
\* undefined and writes 0 as 0; checkAndSetValueBoolean acts if and only if
\* the value is neither undefined nor null and writes false as false; a
\* skipped call leaves the store alone and returns normally.
C7_FalsyValuesWritten ==
    /\ call.op = "checkAndSetValueNumber" => (SyncValue # JsUndef <=> ops # <<>>)
    /\ call.op = "checkAndSetValueBoolean" =>
          (SyncValue \notin {JsUndef, JsNull} <=> ops # <<>>)
    /\ (IsSync /\ call.type \in {"number", "boolean"} /\ ops = <<>>) =>
          StoreUntouched /\ outcome.end = "return"
    /\ (IsSync /\ SyncValue \in {Num(0), Bool(FALSE)} /\ ~Skip /\ call.fail = "none") =>
          states[SyncId] = WantedState /\ ValueWrites = 1

\* 0 has replaced another value
C7_Witness ==
    /\ call.op = "checkAndSetValueNumber" /\ SyncValue = Num(0)
    /\ call.before.states[SyncId] \notin {NoState, WantedState}
    /\ states[SyncId].val = Num(0)

\* C8: a failing metadata write, state read or value write of a helper call
\* makes the call throw, and after a failing metadata write the call makes
\* no further host-store call and writes no value.
C8_WriteErrorsPropagate ==
    IsSync =>
        /\ (\E i \in 1..Len(ops) : ~ops[i].ok) => outcome.end = "throw"
        /\ (ops # <<>> /\ ~ops[1].ok) => Len(ops) = 1 /\ StoreUntouched

\* a metadata write failed on an id without entry
C8_Witness ==
    /\ IsSync /\ call.fail = "setObject" /\ outcome.end = "throw"
    /\ call.before.states[SyncId] = NoState

\* C9: getStateValue and asyncGetForeignStateVal always return normally:
\* the stored val when the object exists and the state is not empty (0 as
\* 0, false as false), null when the object is missing, the state is empty
\* or a host-store call fails.
IsRead == call.op \in {"getStateValue", "asyncGetForeignStateVal"}

ExpectedRead ==
    LET o == call.before.objects[call.stateName]
        st == call.before.states[call.stateName]
    IN  IF call.fail # "none" \/ o = NoObj \/ st = NoState THEN JsNull ELSE st.val

C9_ReadsNeverThrow ==
    IsRead => outcome.end = "return" /\ outcome.value = ExpectedRead /\ StoreUntouched

\* a stored false was read back as false
C9_Witness == IsRead /\ outcome.value = Bool(FALSE)

(***************************************************************************)
(* Properties of the connection-error handler and of the poll.             *)
(***************************************************************************)
\* the two error-level lines of the unknown-error row
UnknownRowLogged ==
    /\ Len(logs) >= 2
    /\ logs[1] = Log("error", "unknown")
    /\ logs[2] = Log("error", "verifyToken")

\* C11: every call of the handler emits at least one log line, and an error
\* without response whose code is none of ETIMEDOUT, EHOSTUNREACH,
\* ENETUNREACH (ECONNRESET for one, or no code at all) gets the error-level
\* lines of the unknown-error row.
C11_DecisionTableTotal ==
    IsHandle =>
        /\ Len(logs) >= 1
        /\ (call.stError.status = JsUndef /\ call.stError.code \notin TransportCodes)
              => UnknownRowLogged

\* the message of the error handled last
Message == call.stError.message

\* C12: with the Sentry object at hand and no collaborator failing, an
\* unknown-shape error whose message no earlier call carried is reported once
\* by the call that handles it, and the call that follows directly with the
\* identical message reports nothing.
C12_ConsecutiveRepeatsDeduplicated ==
    (HandledWithSentry /\ Message.k = "string") =>
        /\ Message \notin call.before.seen => reports = <<Message>>
        /\ lastHandled = Message => reports = <<>>

\* message A was handled twice in succession and reported once
C12_Witness ==
    /\ HandledWithSentry /\ Message = Str(<<"A">>)
    /\ lastHandled = Message
    /\ reports = <<>>
    /\ reported = <<Message>>

\* the last-reported entry as the call found it holds the message of the call
SameAsStored ==
    LET st == call.before.states[LastSentryLoggedError]
    IN  IF Nullish(Message) THEN st = NoState \/ Nullish(st.val)
        ELSE st # NoState /\ st.val = Message

\* C13 as stated: the Sentry captures never outnumber the distinct messages
\* of the unknown-shape errors handled.
C13_OneReportPerDistinctMessage == Len(reported) <= Cardinality(seen)

\* C13 amended: a call of the handler submits at most one report, the message
\* of its error, and only for an unknown-shape error whose message differs
\* from the last-reported entry as the call finds it.
C13_ReportOnlyWhenChanged ==
    (IsHandle /\ reports # <<>>) =>
        /\ reports = <<Message>>
        /\ Consulted(call.stError)
        /\ ~SameAsStored

\* A, B, A: the third call reports A again
C13_Witness ==
    /\ IsHandle /\ reports = <<Str(<<"A">>)>>
    /\ reported = <<Str(<<"A">>), Str(<<"B">>), Str(<<"A">>)>>
    /\ Cardinality(seen) = 2

\* C14: whatever the error object and whatever its collaborators do, a call
\* of the handler ends normally.
C14_NeverThrows == IsHandle => outcome.end = "return"

\* C17: an error with a response whose status is not 401 yields exactly one
\* log line, the error-level line naming the status, and nothing else: no
\* warn line, no stop, no Sentry report, no host-store call; whatever code
\* and message the error carries besides.
C17_OtherStatusLogsOnce ==
    (IsHandle /\ call.stError.status \notin {JsUndef, Num(401)}) =>
        /\ logs = <<Log("error", "httpStatus")>>
        /\ CountLevel("warn") = 0
        /\ stops = 0
        /\ reports = <<>>
        /\ ops = <<>>
        /\ StoreUntouched
        /\ outcome.end = "return"

\* a 500 response that also carries a transport code and a message
C17_Witness ==
    /\ IsHandle /\ call.stError.status = Num(500)
    /\ call.stError.code = Str(<<"ETIMEDOUT">>)
    /\ Message = Str(<<"A">>)
    /\ Len(logs) = 1

\* the handler called setState for the last-reported entry
EntryWritten ==
    \E i \in 1..Len(ops) : ops[i].op = "setState" /\ ops[i].id = LastSentryLoggedError

\* C19: the last-reported entry always holds the message Sentry captured
\* last (and is absent while nothing was captured), and a call that has no
\* Sentry plugin or gets no Sentry object from it does not write the entry.
C19_EntryTracksLastReport ==
    /\ IF reported = <<>> THEN states[LastSentryLoggedError] = NoState
       ELSE /\ states[LastSentryLoggedError] # NoState
            /\ states[LastSentryLoggedError].val = reported[Len(reported)]
    /\ (IsHandle /\ call.plugin # "available") => ~EntryWritten

(***************************************************************************)
(* Further properties of the helpers of ProjectUtils.                      *)
(***************************************************************************)
\* an optional field of the descriptor: there exactly when the argument is
\* neither undefined nor null
WhenDefined(x) == IF Nullish(x) THEN Absent ELSE x

\* C18: the descriptor a numeric helper call stores has unit, min, max and
\* step exactly for the arguments that are neither undefined nor null, with
\* the value passed (0 and "" included); the descriptors of the string and
\* boolean helpers have none of the four.
C18_OptionalFieldsWhenDefined ==
    (IsSync /\ EffectiveMetaWrites = 1) =>
        LET c == objects[SyncId].common
        IN  IF call.type = "number"
            THEN /\ c.unit = WhenDefined(call.a.unit)
                 /\ c.min = WhenDefined(call.a.min)
                 /\ c.max = WhenDefined(call.a.max)
                 /\ c.step = WhenDefined(call.a.step)
            ELSE c.unit = Absent /\ c.min = Absent /\ c.max = Absent /\ c.step = Absent

\* the characters of a string that leave nothing behind once serialized
HollowChars == {" ", "'", "[", "]", "{", "}"}

\* a value whose serialization holds white space, quotes, brackets and
\* braces only, told from its structure
RECURSIVE Hollow(_)
Hollow(v) ==
    CASE v.k = "string" -> \A i \in 1..Len(v.s) : v.s[i] \in HollowChars
      [] v.k = "array" -> v.e = <<>> \/ (Len(v.e) = 1 /\ ~Nullish(v.e[1]) /\ Hollow(v.e[1]))
      [] v.k = "object" -> \A i \in 1..Len(v.f) : v.f[i].value = JsUndef
      [] OTHER -> FALSE

IsEmptyCall == call.op = "isLikeEmpty"

\* C20: isLikeEmpty answers for every input, touching neither store nor
\* log; it answers true for undefined, null, {} and [] and for every value
\* whose serialization holds only white space, quotes, brackets and braces,
\* and false for every other value, {val: 0} and {val: false} among them.
C20_EmptinessPredicate ==
    IsEmptyCall =>
        /\ outcome.end = "return"
        /\ outcome.value = Bool(Nullish(call.inputVar) \/ Hollow(call.inputVar))
        /\ call.inputVar \in {JsUndef, JsNull, Obj(<<>>), Arr(<<>>)} => outcome.value = Bool(TRUE)
        /\ call.inputVar \in {Obj(<<Field("val", Num(0))>>), Obj(<<Field("val", Bool(FALSE))>>),
                               Obj(<<Field("val", Num(0)), Field("ack", Bool(TRUE))>>)}
              => outcome.value = Bool(FALSE)
        /\ StoreUntouched /\ ops = <<>> /\ logs = <<>>

\* {val: 0} was classified, and found not empty
C20_Witness ==
    /\ IsEmptyCall /\ call.inputVar = Obj(<<Field("val", Num(0))>>)
    /\ outcome.value = Bool(FALSE)

(***************************************************************************)
(* Properties of the poll.                                                 *)
(***************************************************************************)
\* ReadTeslaFi has returned to its caller
Returned == call.op = "ReadTeslaFi" /\ outcome.end = "return"

\* the poll got a body that parses
ParsedPoll == call.settled.kind = "response" /\ Truthy(call.settled.data) /\ Parses(call.settled.data)

\* C15: a poll answered with {"battery_level": 72, "state": "online"} makes
\* exactly two helper calls, a numeric one with 72 and a string one with
\* "online", both ending normally, and does not call the error handler; a
\* poll answered with any document makes one helper call per field.
C15_SuccessfulPollSyncs ==
    /\ (Returned /\ call.settled = [kind |-> "response", data |-> Str(Stringify(BatteryPayload))]) =>
          /\ ~call.handled
          /\ Len(call.syncs) = 2
          /\ \E i, j \in 1..2 :
                /\ call.syncs[i].op = "checkAndSetValueNumber" /\ call.syncs[i].value = Num(72)
                /\ call.syncs[j].op = "checkAndSetValue" /\ call.syncs[j].value = Str(<<"online">>)
                /\ call.syncs[i].end = "return" /\ call.syncs[j].end = "return"
    /\ (Returned /\ ParsedPoll) =>
          Len(call.syncs) = Len(JsonParse(call.settled.data).f)

\* C16: when ReadTeslaFi has returned, and so whenever the next poll can
\* start, no host-store request of a handler it started is still in flight.
C16_PollAwaitsCompletion == (Returned \/ call = Idle) => pending = <<>>

(***************************************************************************)
(* Further properties of the read helpers and of the store.                *)
(***************************************************************************)
\* the read found no object, found a state that is empty by isLikeEmpty, or
\* had a host-store call fail
ReadFailed ==
    \/ call.fail # "none"
    \/ call.before.objects[call.stateName] = NoObj
    \/ isLikeEmpty(StateAsJs(call.before.states[call.stateName]))

\* C21: a read helper that returns null because the object is missing, the
\* state is empty or a host-store call failed has emitted at least one
\* error-level log line.
C21_ReadFailuresLogged ==
    (IsRead /\ ReadFailed) => outcome.value = JsNull /\ CountLevel("error") >= 1

\* C22: every id of the store that holds a value also holds an object, and in
\* a sync helper call every value write comes after a completed metadata call
\* on the same id.
C22_ValuesHaveMetadata ==
    /\ \A id \in Ids : states[id] # NoState => objects[id] # NoObj
    /\ IsSync =>
          \A i \in 1..Len(ops) :
             ops[i].op = "setState" =>
                \E j \in 1..(i - 1) :
                   /\ ops[j].op \in {"setObject", "setObjectNotExistsAsync"}
                   /\ ops[j].id = ops[i].id
                   /\ ops[j].ok

\* the poll got an answer with status 200 whose body is empty or does not parse
BadBody ==
    /\ call.settled.kind = "response"
    /\ ~(Truthy(call.settled.data) /\ Parses(call.settled.data))

\* the two error-level lines of the unknown-error row are in the log, one
\* after the other
PollUnknownLogged ==
    \E i \in 1..(Len(logs) - 1) :
        logs[i] = Log("error", "unknown") /\ logs[i + 1] = Log("error", "verifyToken")

\* a poll never rejects, returns true when it returns, and has handed an
\* empty or unparsable body to the error handler as an error without
\* response and without code
PollSafe ==
    call.op = "ReadTeslaFi" =>
        /\ outcome.end # "throw"
        /\ outcome.end = "return" => outcome.value = Bool(TRUE)
        /\ BadBody => call.handled /\ PollUnknownLogged

\* C23: once the HTTP call of a poll has settled, ReadTeslaFi eventually
\* returns; it never rejects and returns true whatever the HTTP call settled
\* with, and an empty or unparsable body of a 200 answer goes to the error
\* handler, which treats it as an unknown error.
C23_PollResolvesTrue == []PollSafe /\ ((call.op = "ReadTeslaFi") ~> Returned)

\* a poll whose 200 answer had an empty or unparsable body has returned true
C23_Witness == Returned /\ BadBody /\ outcome.value = Bool(TRUE)

====
